---------------------------- MODULE Spec2Model ----------------------------
(***************************************************************************)
(* megaprompt: the diagram renderer (src/src/prompt_buffer.rs) and the     *)
(* per-path prompt thread (src/prompt_buffer/src/thread.rs).               *)
(*                                                                         *)
(* Strings are sequences of Unicode code points (a Rust char is a Unicode  *)
(* scalar value): 32 is a space, 10 a newline, 9472 is U+2500, and so on.  *)
(***************************************************************************)
EXTENDS Integers, Sequences, FiniteSets, TLC

(***************************************************************************)
(* Bounds of the model.                                                    *)
(***************************************************************************)
\* plugins contribute at most MaxLines lines to one render
MaxLines == 2
\* the small levels a line is indented to are 0..MaxLevel; U8Max is added
MaxLevel == 2

(***************************************************************************)
(* Part I.  The renderer, src/src/prompt_buffer.rs                         *)
(***************************************************************************)

\* level: u8 (prompt_buffer.rs:51): arithmetic on it is modulo 2^8
U8 == 256
U8Max == 255

Min(a, b) == IF a <= b THEN a ELSE b
Max(a, b) == IF a >= b THEN a ELSE b

RECURSIVE Digits(_)
\* format!("{}", n) of a non-negative integer: its decimal digits
Digits(n) == IF n < 10 THEN <<48 + n>> ELSE Digits(n \div 10) \o <<48 + (n % 10)>>

\* format!("\\[{}[{}\\]", '\x1B', c):  \ [ ESC [ c \ ]
col_cmd(c) == <<92, 91, 27, 91>> \o c \o <<92, 93>>

\* col_cmd(format!("{}m", c + 30))
col(c) == col_cmd(Digits(c + 30) \o <<109>>)

\* col_cmd(format!("1;{}m", c + 30))
bcol(c) == col_cmd(<<49, 59>> \o Digits(c + 30) \o <<109>>)

\* col_cmd("0m")
reset == col_cmd(<<48, 109>>)

\* term::color::RED and MAGENTA, the two colors the renderer itself uses
RED == 1
MAGENTA == 5

\* impl fmt::Show for PromptBox: enable color, text, reset
ShowPromptBox(b) ==
    (IF b.is_bold THEN bcol(b.color) ELSE col(b.color)) \o b.text \o reset

\* PromptLine::new and PromptLine::new_free
PromptLine_new == [level |-> 0, line_type |-> "Boxed", parts |-> <<>>]
PromptLine_new_free == [PromptLine_new EXCEPT !.line_type = "Free"]

\* PromptLineBuilder::indent_by: self.line.level += amt, on a u8
indent_by(line, amt) == [line EXCEPT !.level = (line.level + amt) % U8]

\* PromptLineBuilder::add_block and its three public forms
add_block(line, s, c, bold) ==
    [line EXCEPT !.parts = Append(line.parts, [color |-> c, text |-> s, is_bold |-> bold])]
block(line, s) == add_block(line, s, MAGENTA, FALSE)
colored_block(line, s, c) == add_block(line, s, c, FALSE)
bold_colored_block(line, s, c) == add_block(line, s, c, TRUE)

TOP == 8
BOTTOM == 4
LEFT == 2
RIGHT == 1

\* PromptBuffer::get_line: the 11-entry glyph table, anything else a space
get_line(flags) ==
    CASE flags = 15 -> 9532   \* 1111 U+253C
      [] flags = 14 -> 9508   \* 1110 U+2524
      [] flags = 13 -> 9500   \* 1101 U+251C
      [] flags = 12 -> 9474   \* 1100 U+2502
      [] flags = 11 -> 9524   \* 1011 U+2534
      [] flags = 10 -> 9496   \* 1010 U+2518
      [] flags = 9  -> 9492   \* 1001 U+2514
      [] flags = 6  -> 9488   \* 0110 U+2510
      [] flags = 5  -> 9484   \* 0101 U+250C
      [] flags = 7  -> 9516   \* 0111 U+252C
      [] flags = 3  -> 9472   \* 0011 U+2500
      [] OTHER      -> 32

\* the character c, n times over
Repeat(c, n) == [k \in 1..n |-> c]

\* trail_off with its loop one short: range(0, 9)
trail_off_short == Repeat(get_line(LEFT + RIGHT), 9)

\* PromptBuffer::trail_off: ten times get_line(LEFT|RIGHT)
trail_off == Repeat(get_line(LEFT + RIGHT), 10)

\* start without its push: the buffer begins with no header line
start_no_header(lines) == lines

\* PromptBuffer::start pushes the header line: Boxed, level 0, "\w" and "\H"
start(lines) == Append(lines, block(block(PromptLine_new, <<92, 119>>), <<92, 72>>))

\* to_string, lines 206-212: (current, after, start, end) of line ix
Extent(lines, ix) ==
    LET current == lines[ix].level
    IN  IF ix + 1 <= Len(lines)
        THEN LET a == lines[ix + 1].level
             IN  [current |-> current, after |-> a,
                  start |-> Min(current, a), end |-> Max(current, a)]
        ELSE [current |-> current, after |-> 0, start |-> 0, end |-> current]

\* to_string, lines 222-234: the flags of depth i on line ix (ix is 1-based
\* here, so the source's "ix > 0" is "ix > 1")
GlyphFlags(lines, ix, i) ==
    LET e == Extent(lines, ix)
    IN  (IF i = e.current /\ ix > 1 THEN TOP ELSE 0)
      + (IF i = e.after THEN BOTTOM ELSE 0)
      + (IF i > e.start THEN LEFT ELSE 0)
      + (IF lines[ix].line_type = "Boxed" THEN RIGHT
         ELSE IF i = e.current THEN 0 ELSE RIGHT)

\* to_string, lines 220-236: for i in range(from, to), to exclusive; the
\* k-th glyph is that of depth from + k - 1, and there is none if to <= from
GlyphRun(lines, ix, from, to) ==
    [k \in 1..(to - from) |-> get_line(GlyphFlags(lines, ix, from + k - 1))]

\* to_string, lines 216-236: the padding and the connector glyphs of line ix;
\* the loop's upper limit end + 1 is computed on a u8
Connectors(lines, ix) ==
    LET e == Extent(lines, ix)
    IN  Repeat(32, e.start) \o GlyphRun(lines, ix, e.start, (e.end + 1) % U8)

\* to_string, line 220: the depths the glyph loop of line ix goes through,
\* range(start, end + 1) with end + 1 computed on a u8
GlyphDepths(lines, ix) ==
    LET e == Extent(lines, ix)
    IN  e.start .. (((e.end + 1) % U8) - 1)

RECURSIVE PartsText(_, _, _)
\* to_string, lines 238-248: every block of the line, from the k-th on
PartsText(line, k, acc) ==
    IF k > Len(line.parts) THEN acc
    ELSE PartsText(line, k + 1,
            IF line.line_type = "Boxed"
            THEN acc \o <<get_line(LEFT + RIGHT), get_line(LEFT + TOP + BOTTOM)>>
                     \o ShowPromptBox(line.parts[k])
                     \o <<get_line(TOP + BOTTOM + RIGHT)>>
            ELSE acc \o <<32>> \o ShowPromptBox(line.parts[k]))

\* to_string, lines 214-255: the text of line ix, without its newline
LineText(lines, ix) ==
    LET body == PartsText(lines[ix], 1, Connectors(lines, ix))
    IN  IF lines[ix].line_type = "Boxed" THEN body \o trail_off ELSE body

RECURSIVE Rows(_, _)
\* to_string, lines 204-258: retval after the lines from ix on
Rows(lines, ix) ==
    IF ix > Len(lines) THEN <<>>
    ELSE LineText(lines, ix) \o <<10>> \o Rows(lines, ix + 1)

\* the final row formatted like the rows before it, "{}{}\n" and no space
FinalRowAsLine ==
    <<get_line(TOP + RIGHT), get_line(LEFT + RIGHT)>>
      \o ShowPromptBox([color |-> RED, text |-> <<92, 36>>, is_bold |-> FALSE])
      \o <<10>>

\* to_string, lines 260-267: the final row and the trailing space
FinalRow ==
    <<get_line(TOP + RIGHT), get_line(LEFT + RIGHT)>>
      \o ShowPromptBox([color |-> RED, text |-> <<92, 36>>, is_bold |-> FALSE])
      \o <<32>>

\* PromptBuffer::to_string, given the lines the plugins push after start()
to_string(plugin_lines) ==
    LET lines == start(<<>>) \o plugin_lines
    IN  Rows(lines, 1) \o FinalRow


(***************************************************************************)
(* Part II.  The prompt thread, src/prompt_buffer/src/thread.rs            *)
(***************************************************************************)

\* a worker is revived at most MaxInst - 1 times: its instances are 1..MaxInst
MaxInst == 2
\* get is not called while MaxNotify notifications wait to be read
MaxNotify == 2

Insts == 1..MaxInst

\* What the plugins of the worker's PromptBuffer may push in one render:
\* nothing, or one Free line one level in.
WorkerPluginOutputs ==
    { <<>>, <<block(indent_by(PromptLine_new_free, 1), <<77>>)>> }

\* PromptBuffer::convert_to_string (the full render) and
\* convert_to_string_ext(PluginSpeed::Fast) (the seed render): the string the
\* renderer makes of the header and of whatever the plugins push this time.
convert_to_string == { to_string(pl) : pl \in WorkerPluginOutputs }
convert_to_string_ext == convert_to_string

VARIABLES
    \* PromptThread (the requester's side)
    alive,          \* self.alive
    cached,         \* self.cached
    inst,           \* which background thread self.send/recv/death lead to
    rpc,            \* where the requester is: idle, in get, or gone
    ret,            \* what the last get returned
    budget,         \* get's oneshot_timer(100 ms): off, running, fired
    \* background threads, by instance
    tpc,            \* where thread i is
    notify,         \* unread () in thread i's request channel
    prompt,         \* unread strings in thread i's response channel
    deathq,         \* unread () in thread i's death channel
    idle,           \* the idle timer of thread i's current wait
    timeout,        \* the tick of that timer is in thread i's timeout channel
    \* history
    is_alive_ret,   \* what the last check_is_alive returned
    call_alive,     \* self.alive when the current get was called
    call_cached,    \* self.cached when the current get was called
    wait_cached,    \* self.cached when the current get began to wait
    did_revive,     \* the current get replaced self
    found_dead,     \* the current get's check_is_alive returned false
    n_drained,      \* how many responses the last get took from the channel
    late,           \* a notification was sent after thread i's last response
    last_sent,      \* the last string thread i sent
    \* the renderer's harness
    plugin_lines,   \* the lines the plugins push
    output          \* to_string's result, <<>> before it ran

wvars == <<alive, cached, inst, rpc, ret, budget, tpc, notify, prompt, deathq,
           idle, timeout, is_alive_ret, call_alive, call_cached,
           wait_cached, did_revive, found_dead, n_drained, late, last_sent>>
rvars == <<plugin_lines, output>>
vars == <<wvars, rvars>>

hist == <<call_alive, call_cached, wait_cached, did_revive, found_dead, n_drained>>

NoRet == [kind |-> "none", val |-> <<>>, via |-> "none"]

\* The receiving ends self.recv and self.death of thread i, and the sending
\* end self.send, are dropped when self is replaced (revive) or dropped.
RequesterGone(i) == i # inst \/ rpc = "dropped"

\* PromptThread::new returned Ok: the seed is cached, thread 1 is spawned
InitWorker ==
    /\ alive = TRUE
    /\ cached \in convert_to_string_ext
    /\ inst = 1
    /\ rpc = "idle"
    /\ ret = NoRet
    /\ budget = "off"
    /\ tpc = [i \in Insts |-> IF i = 1 THEN "loop" ELSE "none"]
    /\ notify = [i \in Insts |-> 0]
    /\ prompt = [i \in Insts |-> <<>>]
    /\ deathq = [i \in Insts |-> 0]
    /\ idle = [i \in Insts |-> "off"]
    /\ timeout = [i \in Insts |-> FALSE]
    /\ is_alive_ret = TRUE
    /\ call_alive = TRUE
    /\ call_cached = <<>>
    /\ wait_cached = <<>>
    /\ did_revive = FALSE
    /\ found_dead = FALSE
    /\ n_drained = 0
    /\ late = [i \in Insts |-> FALSE]
    /\ last_sent = [i \in Insts |-> <<>>]

----------------------------------------------------------------------------
\* The requester

\* check_is_alive: self.death.try_recv(), and alive = false if it is Ok
DeathReceived == deathq[inst] > 0
\* check_is_alive with the flag assigned from the poll: alive = no signal now
AliveAfterCheckToggle == ~DeathReceived
AliveAfterCheck == IF DeathReceived THEN FALSE ELSE alive
check_is_alive ==
    /\ alive' = AliveAfterCheck
    /\ deathq' = IF DeathReceived THEN [deathq EXCEPT ![inst] = @ - 1] ELSE deathq
    /\ is_alive_ret' = alive'

\* a call of check_is_alive from outside get
CheckIsAlive ==
    /\ rpc = "idle"
    /\ check_is_alive
    /\ UNCHANGED <<cached, inst, rpc, ret, budget, tpc, notify, prompt, idle,
                   hist, last_sent, timeout, late, rvars>>

\* get, line 102: the call and its check_is_alive
GetCall ==
    /\ rpc = "idle"
    /\ notify[inst] < MaxNotify
    /\ check_is_alive
    /\ rpc' = IF alive' THEN "send" ELSE "revive"
    /\ ret' = NoRet
    /\ call_alive' = alive
    /\ call_cached' = cached
    /\ did_revive' = FALSE
    /\ found_dead' = ~alive'
    /\ n_drained' = 0
    /\ wait_cached' = <<>>
    /\ UNCHANGED <<cached, inst, budget, tpc, notify, prompt, idle,
                   last_sent, timeout, late, rvars>>

\* revive, with new's thread spawned: *self = the new PromptThread; the old
\* one is dropped, and what was unread in its channels with it
ReviveOk ==
    /\ rpc = "revive"
    /\ inst < MaxInst
    /\ \E seed \in convert_to_string_ext : cached' = seed
    /\ inst' = inst + 1
    /\ alive' = TRUE
    /\ tpc' = [tpc EXCEPT ![inst + 1] = "loop"]
    /\ rpc' = "send"
    /\ did_revive' = TRUE
    /\ notify' = [notify EXCEPT ![inst] = 0]
    /\ prompt' = [prompt EXCEPT ![inst] = <<>>]
    /\ deathq' = [deathq EXCEPT ![inst] = 0]
    /\ last_sent' = [last_sent EXCEPT ![inst] = <<>>]
    /\ UNCHANGED <<ret, budget, idle, is_alive_ret,
                   call_alive, call_cached, wait_cached, found_dead,
                   n_drained, timeout, late, rvars>>

\* revive with self.cached assigned before the spawn is known to have worked
ReviveErrHalfReplaced ==
    /\ rpc = "revive"
    /\ \E seed \in convert_to_string_ext : cached' = seed
    /\ ret' = [kind |-> "SpawnError", val |-> <<>>, via |-> "none"]
    /\ rpc' = "idle"
    /\ UNCHANGED <<alive, inst, budget, tpc, notify, prompt, deathq,
                   idle, is_alive_ret, hist, last_sent, timeout, late, rvars>>

\* revive, with new's thread::Builder::spawn failing: try! returns the error
ReviveErr ==
    /\ rpc = "revive"
    /\ ret' = [kind |-> "SpawnError", val |-> <<>>, via |-> "none"]
    /\ rpc' = "idle"
    /\ UNCHANGED <<alive, cached, inst, budget, tpc, notify, prompt, deathq,
                   idle, is_alive_ret, hist, last_sent, timeout, late, rvars>>

\* get, lines 106-108: the notification is sent and the budget timer started
SendOk ==
    /\ rpc = "send"
    /\ tpc[inst] # "done"
    /\ notify' = [notify EXCEPT ![inst] = @ + 1]
    /\ budget' = "running"
    /\ wait_cached' = cached
    /\ rpc' = "poll"
    /\ late' = IF tpc[inst] = "drain" THEN [late EXCEPT ![inst] = TRUE] ELSE late
    /\ UNCHANGED <<alive, cached, inst, ret, tpc, prompt, deathq, idle,
                   is_alive_ret, call_alive, call_cached, did_revive,
                   found_dead, n_drained, last_sent, timeout, rvars>>

\* get, line 106: the thread has exited and dropped rx_notify; try! returns
SendErr ==
    /\ rpc = "send"
    /\ tpc[inst] = "done"
    /\ ret' = [kind |-> "ChannelError", val |-> <<>>, via |-> "none"]
    /\ rpc' = "idle"
    /\ UNCHANGED <<alive, cached, inst, budget, tpc, notify, prompt, deathq,
                   idle, is_alive_ret, hist, last_sent, timeout, late, rvars>>

\* the first buffered response kept instead of the last (no drain)
RecvFirst(q) == q[1]

\* get, lines 111-118: a response is there; the buffered ones are drained
\* (all that were sent before the try_recv that fails), the last one kept
RecvValue(q) == q[Len(q)]
PollRecvSome ==
    /\ rpc = "poll"
    /\ prompt[inst] # <<>>
    /\ cached' = RecvValue(prompt[inst])
    /\ prompt' = [prompt EXCEPT ![inst] = <<>>]
    /\ ret' = [kind |-> "Ok", val |-> cached', via |-> "response"]
    /\ budget' = "off"
    /\ rpc' = "idle"
    /\ n_drained' = Len(prompt[inst])
    /\ UNCHANGED <<alive, inst, tpc, notify, deathq, idle, is_alive_ret,
                   call_alive, call_cached, wait_cached, did_revive,
                   found_dead, last_sent, timeout, late, rvars>>

\* get, line 111: no response yet
PollRecvNone ==
    /\ rpc = "poll"
    /\ prompt[inst] = <<>>
    /\ rpc' = "poll_timer"
    /\ UNCHANGED <<alive, cached, inst, ret, budget, tpc, notify, prompt,
                   deathq, idle, is_alive_ret, hist, last_sent, timeout, late, rvars>>

\* a timeout that returns a fresh, empty String
TimeoutValueEmpty == <<>>

\* a timeout that does not return: the loop goes on
PollTimerFiredNoReturn ==
    /\ rpc = "poll_timer"
    /\ budget = "fired"
    /\ rpc' = "poll"
    /\ UNCHANGED <<alive, cached, inst, ret, budget, tpc, notify, prompt,
                   deathq, idle, is_alive_ret, hist, last_sent, timeout, late, rvars>>

\* a timeout reported as an error
PollTimerFiredErr ==
    /\ rpc = "poll_timer"
    /\ budget = "fired"
    /\ ret' = [kind |-> "ChannelError", val |-> <<>>, via |-> "timeout"]
    /\ budget' = "off"
    /\ rpc' = "idle"
    /\ UNCHANGED <<alive, cached, inst, tpc, notify, prompt, deathq, idle,
                   is_alive_ret, hist, last_sent, timeout, late, rvars>>

\* a timeout that renders the fast seed again and caches it
PollTimerFiredReseeds ==
    /\ rpc = "poll_timer"
    /\ budget = "fired"
    /\ \E seed \in convert_to_string_ext :
         /\ cached' = seed
         /\ ret' = [kind |-> "Ok", val |-> seed, via |-> "timeout"]
    /\ budget' = "off"
    /\ rpc' = "idle"
    /\ UNCHANGED <<alive, inst, tpc, notify, prompt, deathq, idle,
                   is_alive_ret, hist, last_sent, timeout, late, rvars>>

\* get, lines 121-123: out of time, the cached string is returned
TimeoutValue == cached
PollTimerFired ==
    /\ rpc = "poll_timer"
    /\ budget = "fired"
    /\ ret' = [kind |-> "Ok", val |-> TimeoutValue, via |-> "timeout"]
    /\ budget' = "off"
    /\ rpc' = "idle"
    /\ UNCHANGED <<alive, cached, inst, tpc, notify, prompt, deathq, idle,
                   is_alive_ret, hist, last_sent, timeout, late, rvars>>

\* get, lines 121-125: not yet; sleep a millisecond and look again
PollSleep ==
    /\ rpc = "poll_timer"
    /\ budget = "running"
    /\ rpc' = "poll"
    /\ UNCHANGED <<alive, cached, inst, ret, budget, tpc, notify, prompt,
                   deathq, idle, is_alive_ret, hist, last_sent, timeout, late, rvars>>

\* the PromptThread is dropped: its three channel ends go, and what was
\* unread in the response and death channels with them
Drop ==
    /\ rpc = "idle"
    /\ rpc' = "dropped"
    /\ prompt' = [prompt EXCEPT ![inst] = <<>>]
    /\ deathq' = [deathq EXCEPT ![inst] = 0]
    /\ UNCHANGED <<alive, cached, inst, ret, budget, tpc, notify,
                   idle, is_alive_ret, hist, last_sent, timeout, late, rvars>>

----------------------------------------------------------------------------
\* The timers

\* get's oneshot_timer(100 ms): its thread wakes and sends
BudgetFires ==
    /\ budget = "running"
    /\ budget' = "fired"
    /\ UNCHANGED <<alive, cached, inst, rpc, ret, tpc, notify, prompt, deathq,
                   idle, is_alive_ret, hist, last_sent, timeout, late, rvars>>

\* thread i's oneshot_timer(10 min): its thread wakes and sends.  A get lasts
\* about the budget, far less than the idle timeout, so the ten minutes run
\* out between two gets; the thread may react to it at any later time.
\* The last instance the model has does not time out.
IdleTimerFires(i) ==
    /\ idle[i] = "armed"
    /\ rpc \in {"idle", "dropped"}
    /\ i < MaxInst
    /\ idle' = [idle EXCEPT ![i] = "fired"]
    /\ timeout' = [timeout EXCEPT ![i] = TRUE]
    /\ UNCHANGED <<alive, cached, inst, rpc, ret, budget, tpc, notify, prompt,
                   deathq, is_alive_ret, hist, last_sent, late, rvars>>

\* thread i waits, and not for the first time: the timers of its earlier
\* waits may still sleep
HasEarlierTimer(i) == tpc[i] = "select" /\ last_sent[i] # <<>>

\* an earlier timer's tick put into the channel the thread waits on now, as
\* if all the waits shared one timeout channel
StaleTimerFiresHeard(i) ==
    /\ HasEarlierTimer(i)
    /\ timeout' = [timeout EXCEPT ![i] = TRUE]
    /\ UNCHANGED <<alive, cached, inst, rpc, ret, budget, tpc, notify, prompt,
                   deathq, idle, is_alive_ret, hist, last_sent, late, rvars>>

\* oneshot_timer, lines 30-32, for a timer of an earlier wait of thread i:
\* its thread wakes, and its send fails and is ignored, because its receiver
\* was dropped when that iteration of the loop ended: nothing changes
StaleTimerFires(i) ==
    /\ HasEarlierTimer(i)
    /\ UNCHANGED <<alive, cached, inst, rpc, ret, budget, tpc, notify, prompt,
                   deathq, idle, timeout, is_alive_ret, hist, last_sent, late,
                   rvars>>

----------------------------------------------------------------------------
\* Background thread i

\* line 55: the top of the loop starts the idle timer of this wait, with a
\* channel of its own; the timer of the wait before is left behind
LoopTop(i) ==
    /\ tpc[i] = "loop"
    /\ idle' = [idle EXCEPT ![i] = "armed"]
    /\ timeout' = [timeout EXCEPT ![i] = FALSE]
    /\ tpc' = [tpc EXCEPT ![i] = "select"]
    /\ UNCHANGED <<alive, cached, inst, rpc, ret, budget, notify, prompt,
                   deathq, is_alive_ret, hist, last_sent, late, rvars>>

\* lines 57-58: rx_notify.recv() is ready, with a notification or because
\* the sender is gone; the render starts
SelectRequest(i) ==
    /\ tpc[i] = "select"
    /\ notify[i] > 0 \/ RequesterGone(i)
    /\ notify' = [notify EXCEPT ![i] = IF @ > 0 THEN @ - 1 ELSE 0]
    /\ tpc' = [tpc EXCEPT ![i] = "compute"]
    /\ UNCHANGED <<alive, cached, inst, rpc, ret, budget, prompt, deathq,
                   idle, is_alive_ret, hist, last_sent, timeout, late, rvars>>

\* the render sent with the send's result ignored: no return
ComputeSendIgnoresErr(i) ==
    /\ tpc[i] = "compute"
    /\ IF RequesterGone(i)
       THEN UNCHANGED <<prompt, last_sent>>
       ELSE \E text \in convert_to_string :
                 /\ prompt' = [prompt EXCEPT ![i] = Append(@, text)]
                 /\ last_sent' = [last_sent EXCEPT ![i] = text]
    /\ tpc' = [tpc EXCEPT ![i] = "drain"]
    /\ UNCHANGED <<alive, cached, inst, rpc, ret, budget, notify, deathq, idle,
                   is_alive_ret, hist, timeout, late, rvars>>

\* lines 59-61: the render is done and sent; the thread returns if the
\* receiver is gone
ComputeSend(i) ==
    /\ tpc[i] = "compute"
    /\ IF RequesterGone(i)
       THEN /\ tpc' = [tpc EXCEPT ![i] = "done"]
            /\ notify' = [notify EXCEPT ![i] = 0]
            /\ idle' = [idle EXCEPT ![i] = "off"]
            /\ timeout' = [timeout EXCEPT ![i] = FALSE]
            /\ UNCHANGED <<prompt, last_sent>>
       ELSE /\ \E text \in convert_to_string :
                 /\ prompt' = [prompt EXCEPT ![i] = Append(@, text)]
                 /\ last_sent' = [last_sent EXCEPT ![i] = text]
            /\ tpc' = [tpc EXCEPT ![i] = "drain"]
            /\ UNCHANGED <<notify, idle, timeout>>
    /\ UNCHANGED <<alive, cached, inst, rpc, ret, budget, deathq,
                   is_alive_ret, hist, late, rvars>>

\* the loop without its drain: every notification is left to be served
DrainNotifyNone(i) ==
    /\ tpc[i] = "drain"
    /\ late' = [late EXCEPT ![i] = FALSE]
    /\ tpc' = [tpc EXCEPT ![i] = "loop"]
    /\ UNCHANGED <<alive, cached, inst, rpc, ret, budget, notify, prompt, deathq,
                   idle, is_alive_ret, hist, last_sent, timeout, rvars>>

\* line 71: the notify channel is drained (all that was sent before the
\* try_recv that fails), and the loop starts over
DrainNotify(i) ==
    /\ tpc[i] = "drain"
    /\ notify' = [notify EXCEPT ![i] = 0]
    /\ late' = [late EXCEPT ![i] = FALSE]
    /\ tpc' = [tpc EXCEPT ![i] = "loop"]
    /\ UNCHANGED <<alive, cached, inst, rpc, ret, budget, prompt, deathq,
                   idle, is_alive_ret, hist, last_sent, timeout, rvars>>

\* the timeout arm without its tx_death.send
SelectTimeoutSilent(i) ==
    /\ tpc[i] = "select"
    /\ timeout[i]
    /\ tpc' = [tpc EXCEPT ![i] = "exiting"]
    /\ UNCHANGED <<alive, cached, inst, rpc, ret, budget, notify, prompt,
                   deathq, idle, is_alive_ret, hist, last_sent, timeout, late, rvars>>

\* the timeout arm without its break: death is signalled, the loop goes on
SelectTimeoutNoBreak(i) ==
    /\ tpc[i] = "select"
    /\ timeout[i]
    /\ deathq' = IF RequesterGone(i) THEN deathq ELSE [deathq EXCEPT ![i] = @ + 1]
    /\ tpc' = [tpc EXCEPT ![i] = "loop"]
    /\ UNCHANGED <<alive, cached, inst, rpc, ret, budget, notify, prompt,
                   idle, is_alive_ret, hist, last_sent, timeout, late, rvars>>

\* a timeout that also interrupts the render
SelectTimeoutWhileComputing(i) ==
    /\ tpc[i] \in {"select", "compute"}
    /\ timeout[i]
    /\ deathq' = IF RequesterGone(i) THEN deathq ELSE [deathq EXCEPT ![i] = @ + 1]
    /\ tpc' = [tpc EXCEPT ![i] = "exiting"]
    /\ UNCHANGED <<alive, cached, inst, rpc, ret, budget, notify, prompt,
                   idle, is_alive_ret, hist, last_sent, timeout, late, rvars>>

\* lines 63-66: timeout.recv() is ready; death is signalled
\* (the send's result is ignored) and the loop is left
SelectTimeout(i) ==
    /\ tpc[i] = "select"
    /\ timeout[i]
    /\ deathq' = IF RequesterGone(i) THEN deathq ELSE [deathq EXCEPT ![i] = @ + 1]
    /\ tpc' = [tpc EXCEPT ![i] = "exiting"]
    /\ UNCHANGED <<alive, cached, inst, rpc, ret, budget, notify, prompt,
                   idle, is_alive_ret, hist, last_sent, timeout, late, rvars>>

\* line 73: the closure returns; rx_notify (with what is unread in it), the
\* timer's receiver, tx_prompt and tx_death are dropped
ThreadExit(i) ==
    /\ tpc[i] = "exiting"
    /\ tpc' = [tpc EXCEPT ![i] = "done"]
    /\ notify' = [notify EXCEPT ![i] = 0]
    /\ idle' = [idle EXCEPT ![i] = "off"]
    /\ timeout' = [timeout EXCEPT ![i] = FALSE]
    /\ UNCHANGED <<alive, cached, inst, rpc, ret, budget, prompt,
                   deathq, is_alive_ret, hist, last_sent, late, rvars>>

----------------------------------------------------------------------------
GetStep ==
    \/ ReviveOk \/ ReviveErr \/ SendOk \/ SendErr
    \/ PollRecvSome \/ PollRecvNone \/ PollTimerFired \/ PollSleep

ThreadStep(i) ==
    \/ LoopTop(i) \/ SelectRequest(i) \/ ComputeSend(i) \/ DrainNotify(i)
    \/ SelectTimeout(i) \/ ThreadExit(i)

Next ==
    \/ CheckIsAlive
    \/ GetCall
    \/ ReviveOk
    \/ ReviveErr
    \/ SendOk
    \/ SendErr
    \/ PollRecvSome
    \/ PollRecvNone
    \/ PollTimerFired
    \/ PollSleep
    \/ Drop
    \/ BudgetFires
    \/ \E i \in Insts : IdleTimerFires(i)
    \/ \E i \in Insts : StaleTimerFires(i)
    \/ \E i \in Insts : LoopTop(i)
    \/ \E i \in Insts : SelectRequest(i)
    \/ \E i \in Insts : ComputeSend(i)
    \/ \E i \in Insts : DrainNotify(i)
    \/ \E i \in Insts : SelectTimeout(i)
    \/ \E i \in Insts : ThreadExit(i)

Init == InitWorker /\ plugin_lines = <<>> /\ output = <<>>

Spec == Init /\ [][Next]_vars

----------------------------------------------------------------------------
\* The scheduler runs every thread that can run, a timer thread that was
\* started wakes up, and the requester carries on with a get it is in.
SpecLive ==
    /\ Init
    /\ [][Next]_vars
    /\ WF_vars(GetStep)
    /\ WF_vars(BudgetFires)
    /\ \A i \in Insts : WF_vars(ThreadStep(i))

(***************************************************************************)
(* Part III.  The renderer's harness: to_string on the lines plugins push  *)
(***************************************************************************)

\* the levels plugins indent to: the small ones and the largest u8
Levels == (0..MaxLevel) \cup {U8Max}

\* the blocks of a line: none, one, or two (the second bold and colored)
PartsChoices(line) ==
    { line,
      block(line, <<77>>),
      bold_colored_block(block(line, <<77>>), <<63, 63>>, RED) }

\* the lines a plugin can build with PromptLineBuilder
PluginLines ==
    UNION { PartsChoices(indent_by(base, lv)) :
              base \in {PromptLine_new, PromptLine_new_free}, lv \in Levels }

RECURSIVE SeqsUpTo(_, _)
\* the sequences over S of length at most n
SeqsUpTo(S, n) ==
    IF n = 0 THEN { <<>> }
    ELSE LET shorter == SeqsUpTo(S, n - 1)
         IN  shorter \cup { Append(q, x) : q \in shorter, x \in S }

InitRender ==
    /\ InitWorker
    /\ cached = to_string(<<>>)
    /\ plugin_lines \in SeqsUpTo(PluginLines, MaxLines)
    /\ output = <<>>

\* PromptBuffer::to_string runs
Render ==
    /\ output = <<>>
    /\ output' = to_string(plugin_lines)
    /\ UNCHANGED <<wvars, plugin_lines>>

NextRender == Render

SpecRender == InitRender /\ [][NextRender]_vars

(***************************************************************************)
(* Part IV.  The claims about the renderer (checked under SpecRender)      *)
(***************************************************************************)

\* the lines to_string lays out: the header, then the plugins' lines
AllLines == start(<<>>) \o plugin_lines

\* the positions of the newlines of the output, and its k-th row
Newlines == { k \in 1..Len(output) : output[k] = 10 }
NthNewline(n) == CHOOSE k \in Newlines : Cardinality({ j \in Newlines : j <= k }) = n
RowOf(n) ==
    LET from == IF n = 1 THEN 1 ELSE NthNewline(n - 1) + 1
    IN  SubSeq(output, from, NthNewline(n) - 1)

\* the glyph table as the specification gives it, by (TOP, BOTTOM, LEFT, RIGHT)
TableGlyph(t, b, l, r) ==
    LET entry == <<t, b, l, r>>
    IN  CASE entry = <<TRUE, TRUE, TRUE, TRUE>>    -> 9532
          [] entry = <<TRUE, TRUE, TRUE, FALSE>>   -> 9508
          [] entry = <<TRUE, TRUE, FALSE, TRUE>>   -> 9500
          [] entry = <<TRUE, TRUE, FALSE, FALSE>>  -> 9474
          [] entry = <<TRUE, FALSE, TRUE, TRUE>>   -> 9524
          [] entry = <<TRUE, FALSE, TRUE, FALSE>>  -> 9496
          [] entry = <<TRUE, FALSE, FALSE, TRUE>>  -> 9492
          [] entry = <<FALSE, TRUE, TRUE, FALSE>>  -> 9488
          [] entry = <<FALSE, TRUE, FALSE, TRUE>>  -> 9484
          [] entry = <<FALSE, TRUE, TRUE, TRUE>>   -> 9516
          [] entry = <<FALSE, FALSE, TRUE, TRUE>>  -> 9472
          [] OTHER -> 32

\* the level of the line after line ix, 0 after the last
LevelAfter(ix) == IF ix < Len(AllLines) THEN AllLines[ix + 1].level ELSE 0

\* row ix starts with min(current, after) spaces and then has, for each depth
\* d from min to max, the table's glyph for the flags of d
ConnectorPrefixAsClaimed(ix) ==
    LET current == AllLines[ix].level
        after == LevelAfter(ix)
        lo == Min(current, after)
        hi == Max(current, after)
        row == RowOf(ix)
    IN  /\ Len(row) >= hi + 1
        /\ \A d \in 0..hi :
             row[d + 1] =
               IF d < lo THEN 32
               ELSE TableGlyph(d = current /\ ix > 1,
                               d = after,
                               d > lo,
                               AllLines[ix].line_type = "Boxed" \/ d # current)

\* C9: in every rendered output, every row's connector prefix is the padding
\* of min(current, after) spaces followed by one table glyph for each depth
\* from min to max, with TOP iff d = current and the line is not the first,
\* BOTTOM iff d = after, LEFT iff d > start, RIGHT iff Boxed or d # current.
C9_ConnectorPrefix ==
    output # <<>> => \A ix \in 1..Len(AllLines) : ConnectorPrefixAsClaimed(ix)

\* The same, for the renders none of whose lines is at the largest level a
\* u8 holds: there the loop limit end + 1 does not wrap, and the rule holds.
C9_BelowU8Max ==
    (output # <<>> /\ \A ix \in 1..Len(AllLines) : AllLines[ix].level < U8Max)
        => \A ix \in 1..Len(AllLines) : ConnectorPrefixAsClaimed(ix)

RECURSIVE Concat(_)
\* the strings of a sequence, one after the other
Concat(ss) == IF ss = <<>> THEN <<>> ELSE Head(ss) \o Concat(Tail(ss))

\* what follows the connectors according to the specification's words: each
\* block between U+2500 U+250C and U+2510 U+2500, then ten U+2500 (Boxed);
\* a space and the block (Free)
BlocksAsClaimed(line) ==
    IF line.line_type = "Boxed"
    THEN Concat([k \in 1..Len(line.parts) |->
                   <<9472, 9484>> \o ShowPromptBox(line.parts[k]) \o <<9488, 9472>>])
           \o [k \in 1..10 |-> 9472]
    ELSE Concat([k \in 1..Len(line.parts) |->
                   <<32>> \o ShowPromptBox(line.parts[k])])

\* what follows them in the code: each block between U+2500 U+2524 and
\* U+251C, then ten U+2500 (Boxed); a space and the block, block by block (Free)
BlocksAsBuilt(line) ==
    IF line.line_type = "Boxed"
    THEN Concat([k \in 1..Len(line.parts) |->
                   <<9472, 9508>> \o ShowPromptBox(line.parts[k]) \o <<9500>>])
           \o [k \in 1..10 |-> 9472]
    ELSE Concat([k \in 1..Len(line.parts) |->
                   <<32>> \o ShowPromptBox(line.parts[k])])

\* C10 as stated: after the connector glyphs, a Boxed row wraps its blocks in
\* U+2500 U+250C ... U+2510 U+2500 and ends with ten U+2500; a Free row has a
\* space and the block text, and nothing else.
C10_AsStated ==
    output # <<>> =>
        \A ix \in 1..Len(AllLines) :
            RowOf(ix) = Connectors(AllLines, ix) \o BlocksAsClaimed(AllLines[ix])

\* C10, amended: after the connector glyphs, each block of a Boxed row comes
\* between U+2500 U+2524 and U+251C and the row ends with ten U+2500; each
\* block of a Free row comes after one space, with no box glyph and no tail.
C10_BlocksAndTail ==
    output # <<>> =>
        \A ix \in 1..Len(AllLines) :
            RowOf(ix) = Connectors(AllLines, ix) \o BlocksAsBuilt(AllLines[ix])

\* a render of a Boxed line of two blocks and a Free line of one or more
C10_Witness ==
    /\ output # <<>>
    /\ \E ix \in 2..Len(AllLines) :
         AllLines[ix].line_type = "Boxed" /\ Len(AllLines[ix].parts) = 2
    /\ \E ix \in 2..Len(AllLines) :
         AllLines[ix].line_type = "Free" /\ Len(AllLines[ix].parts) >= 1

\* what follows the last newline of the output
AfterLastNewline ==
    LET last == IF Newlines = {} THEN 0
                ELSE CHOOSE k \in Newlines : \A j \in Newlines : j <= k
    IN  SubSeq(output, last + 1, Len(output))

\* the marker block of the final row, "\$" in red between its color command
\* and the reset, bold as the specification has it and plain as the code does
MarkerBold == bcol(RED) \o <<92, 36>> \o reset
MarkerPlain == col(RED) \o <<92, 36>> \o reset

\* the output is one newline-ended row for each line, in the order of the
\* lines, and then: U+2514, U+2500, the marker, one space and nothing more
EndsWithFinalRow(marker) ==
    /\ Cardinality(Newlines) = Len(AllLines)
    /\ \A ix \in 1..Len(AllLines) : RowOf(ix) = LineText(AllLines, ix)
    /\ AfterLastNewline = <<TableGlyph(TRUE, FALSE, FALSE, TRUE),
                            TableGlyph(FALSE, FALSE, TRUE, TRUE)>>
                            \o marker \o <<32>>

\* C11 as stated: every output is one newline-ended row per line, in input
\* order, then exactly one final row of the TOP|RIGHT glyph, the LEFT|RIGHT
\* glyph and the bold marker block, with no newline after it and exactly one
\* trailing space.
C11_AsStated == output # <<>> => EndsWithFinalRow(MarkerBold)

\* C11, amended: the same, the marker block being "\$" in red and not bold.
C11_FinalRow == output # <<>> => EndsWithFinalRow(MarkerPlain)

\* a render of the header and as many plugin lines as there can be
C11_Witness == output # <<>> /\ Len(plugin_lines) = MaxLines

\* the header row: U+250C, then "\w" and "\H" in magenta, each between
\* U+2500 U+2524 and U+251C, then ten U+2500
HeaderRow ==
    <<9484>>
      \o <<9472, 9508>> \o col(MAGENTA) \o <<92, 119>> \o reset \o <<9500>>
      \o <<9472, 9508>> \o col(MAGENTA) \o <<92, 72>> \o reset \o <<9500>>
      \o [k \in 1..10 |-> 9472]

\* C12: when the plugins push no line, the output is exactly two rows: the
\* header row (level 0, Boxed, the blocks "\w" and "\H"), its newline, and
\* the final marker row, with nothing in between.
C12_HeaderAndMarkerOnly ==
    (output # <<>> /\ plugin_lines = <<>>) =>
        output = HeaderRow \o <<10>> \o <<9492, 9472>> \o MarkerPlain \o <<32>>

\* a render of no plugin line
C12_Witness == output # <<>> /\ plugin_lines = <<>>

\* the glyphs of row ix between its padding and its first block
ConnectorCount(ix) ==
    Len(RowOf(ix)) - Min(AllLines[ix].level, LevelAfter(ix))
                   - Len(BlocksAsBuilt(AllLines[ix]))

\* C13: for all levels 0..255 and any jumps between them the render does not
\* fail, and every row has exactly max(current, after) - min(current, after)
\* + 1 connector glyphs after its padding.
C13_GlyphCount ==
    output # <<>> =>
        \A ix \in 1..Len(AllLines) :
            ConnectorCount(ix) =
                Max(AllLines[ix].level, LevelAfter(ix))
                  - Min(AllLines[ix].level, LevelAfter(ix)) + 1

\* The same for the levels 0..254, where the loop limit end + 1 fits a u8.
C13_BelowU8Max ==
    (output # <<>> /\ \A ix \in 1..Len(AllLines) : AllLines[ix].level < U8Max)
        => \A ix \in 1..Len(AllLines) :
              ConnectorCount(ix) =
                  Max(AllLines[ix].level, LevelAfter(ix))
                    - Min(AllLines[ix].level, LevelAfter(ix)) + 1

\* flag bit (TOP, BOTTOM, LEFT or RIGHT) is set in flags
HasFlag(flags, bit) == (flags \div bit) % 2 = 1

\* the depths at which the glyph loop of row ix sets BOTTOM, and TOP
BottomDepths(ix) ==
    { d \in GlyphDepths(AllLines, ix) : HasFlag(GlyphFlags(AllLines, ix, d), BOTTOM) }
TopDepths(ix) ==
    { d \in GlyphDepths(AllLines, ix) : HasFlag(GlyphFlags(AllLines, ix, d), TOP) }

\* row ix hands its vertical connector down at exactly one depth, the level
\* of the next line (0 after the last), and the next row takes it up at
\* exactly that depth; under the last row it is the final row's first glyph
ContinuousBelow(ix) ==
    /\ BottomDepths(ix) = { LevelAfter(ix) }
    /\ IF ix < Len(AllLines)
       THEN TopDepths(ix + 1) = BottomDepths(ix)
       ELSE /\ LevelAfter(ix) = 0
            /\ AfterLastNewline[1] = TableGlyph(TRUE, FALSE, FALSE, TRUE)

\* C22: the vertical connector is continuous between rows: every row's flags
\* have BOTTOM at exactly one depth, the level of the next line, which is
\* exactly the one depth where the next row's flags have TOP; for the last
\* line that depth is 0, the column of the final row's TOP|RIGHT glyph.
C22_ConnectorContinuous ==
    output # <<>> => \A ix \in 1..Len(AllLines) : ContinuousBelow(ix)

\* The same for the levels 0..254, where the loop limit end + 1 fits a u8.
C22_BelowU8Max ==
    (output # <<>> /\ \A ix \in 1..Len(AllLines) : AllLines[ix].level < U8Max)
        => \A ix \in 1..Len(AllLines) : ContinuousBelow(ix)

(***************************************************************************)
(* Part V.  The claims about the prompt thread                             *)
(***************************************************************************)

\* C1: cached_output is never empty once new() has returned, and every value
\* get returns (fresh, fallback, after revival) is non-empty.
C1_NeverEmpty ==
    /\ cached # <<>>
    /\ ret.kind = "Ok" => ret.val # <<>>

\* a get that revived the worker and then fell back to the cached string
C1_Witness ==
    rpc = "idle" /\ ret.kind = "Ok" /\ ret.via = "timeout" /\ did_revive

\* C2 (under SpecLive): a get that has sent its notification returns.
C2_GetReturns == (rpc \in {"poll", "poll_timer"}) ~> (rpc = "idle")

\* a get has returned although its thread had already terminated
C2_Witness ==
    rpc = "idle" /\ ret.via = "timeout" /\ tpc[inst] = "done" /\ alive

\* C3: a get that ran out of time returned Ok with the string that was cached
\* when its wait began, and the cache still holds that string; it is no error.
C3_TimeoutFallsBack ==
    ret.via = "timeout" =>
        /\ ret.kind = "Ok"
        /\ ret.val = wait_cached
        /\ cached = wait_cached

\* a get ran out of time while the thread was still computing
C3_Witness ==
    rpc = "idle" /\ ret.via = "timeout" /\ tpc[inst] = "compute" /\ prompt[inst] = <<>>

\* C4: when get finds a response, it takes every buffered response, returns
\* the last one the thread sent, and caches what it returns.
C4_FreshIsLast ==
    [][(rpc = "poll" /\ prompt[inst] # <<>> /\ rpc' # rpc) =>
          /\ rpc' = "idle"
          /\ ret' = [kind |-> "Ok", val |-> last_sent[inst], via |-> "response"]
          /\ cached' = ret'.val
          /\ prompt'[inst] = <<>>]_vars

\* a get took two buffered responses at once
C4_Witness == rpc = "idle" /\ ret.via = "response" /\ n_drained = 2

\* The parts of C5.  (a) When the idle timer of the worker's thread has fired
\* while it waits, with no request, the thread terminates having signalled
\* death, unless the requester calls get (or goes) first.
IdleDeath ==
    (rpc = "idle" /\ tpc[inst] = "select" /\ idle[inst] = "fired" /\ notify[inst] = 0)
        ~> \/ tpc[inst] = "done" /\ (deathq[inst] > 0 \/ ~alive)
           \/ rpc # "idle"

\* (b) once the thread has left its loop, check_is_alive returns false
CheckSeesDeath ==
    [][((CheckIsAlive \/ GetCall) /\ tpc[inst] \in {"exiting", "done"})
          => ~is_alive_ret']_vars

\* (c) as stated: the get that finds the worker dead revives it and returns
\* Ok with a non-empty value
RevivalSucceeds ==
    (found_dead /\ ret.kind # "none") =>
        ret.kind = "Ok" /\ ret.val # <<>> /\ did_revive

\* (c) as the code has it: that, or SpawnError with the worker left dead
RevivalSucceedsOrSpawnError ==
    (found_dead /\ ret.kind # "none") =>
        \/ ret.kind = "Ok" /\ ret.val # <<>> /\ did_revive
        \/ ret.kind = "SpawnError" /\ ~did_revive /\ ~alive

\* C5 as stated (under SpecLive): after an idle timeout the thread signals
\* death and terminates, check_is_alive then returns false, and the next get
\* revives the worker and returns Ok with a non-empty value.
C5_AsStated == IdleDeath /\ CheckSeesDeath /\ []RevivalSucceeds

\* C5, amended (under SpecLive): ... and the next get revives the worker and
\* returns Ok with a non-empty value if the new thread can be spawned;
\* otherwise it returns SpawnError and the worker stays dead.
C5_IdleDeathAndRevival ==
    IdleDeath /\ CheckSeesDeath /\ []RevivalSucceedsOrSpawnError

\* the first thread timed out and terminated, and a get revived the worker
C5_Witness ==
    /\ rpc = "idle" /\ found_dead /\ did_revive /\ ret.kind = "Ok"
    /\ tpc[1] = "done" /\ inst = 2

\* C6: check_is_alive returns at once; it sets alive to false exactly when it
\* receives a death signal; called again it returns the same false; alive
\* goes back to true only through revival.
C6_CheckIsAlive ==
    [][/\ (CheckIsAlive \/ GetCall) =>
             /\ alive' = (alive /\ deathq[inst] = 0)
             /\ is_alive_ret' = alive'
       /\ CheckIsAlive => rpc' = "idle"
       /\ (alive /\ ~alive') =>
             /\ rpc = "idle"
             /\ deathq[inst] > 0
             /\ deathq' = [deathq EXCEPT ![inst] = @ - 1]
       /\ (~alive /\ alive') => (rpc = "revive" /\ inst' # inst)
       /\ (~is_alive_ret /\ is_alive_ret') => (inst # 1 /\ alive)]_vars

\* death has been observed, and no signal is left in the channel
C6_Witness ==
    rpc = "idle" /\ ~alive /\ ~is_alive_ret /\ deathq[inst] = 0 /\ tpc[inst] = "done"

\* a get returns an error
ErrorReturn ==
    rpc # "idle" /\ rpc' = "idle" /\ ret'.kind # "Ok"

\* the two cases of an error, what it leaves alone
ErrorCases ==
    /\ \/ ret'.kind = "SpawnError" /\ rpc = "revive"
       \/ ret'.kind = "ChannelError" /\ rpc = "send" /\ tpc[inst] = "done"
    /\ cached' = call_cached
    /\ inst' = inst
    /\ notify' = notify
    /\ budget = "off" /\ budget' = "off"

\* C7 as stated: get fails only with SpawnError (revival cannot spawn) or
\* ChannelError (the request channel is closed); it then returns at once,
\* and cached_output and alive are as they were when get was called.
C7_AsStated ==
    [][ErrorReturn => (ErrorCases /\ alive' = call_alive)]_vars

\* C7, amended: ... cached_output is as it was when get was called; alive is
\* unchanged on ChannelError, and false on SpawnError (set by this get's own
\* check_is_alive if it is the one to receive the death signal).
C7_ErrorsOnly ==
    [][ErrorReturn =>
          /\ ErrorCases
          /\ ret'.kind = "ChannelError" => alive' = call_alive
          /\ ret'.kind = "SpawnError" => ~alive']_vars

\* a get that was called on a live worker returned SpawnError and left it dead
C7_Witness ==
    rpc = "idle" /\ ret.kind = "SpawnError" /\ call_alive /\ ~alive

\* thread i waits for requests or computes
Active(i) == tpc[i] \in {"loop", "select", "compute", "drain"}

\* C8: a thread is spawned only by the revival inside get, after a death
\* signal was received, and no two threads of the worker are active at once.
C8_LazyExclusiveRevival ==
    /\ [](\A i, j \in Insts : i # j => ~(Active(i) /\ Active(j)))
    /\ [][\A i \in Insts :
            (tpc[i] = "none" /\ tpc'[i] # "none") =>
                /\ rpc = "revive" /\ found_dead /\ ~alive
                /\ i = inst + 1
                /\ tpc[inst] \in {"exiting", "done"}]_vars

\* the second thread computes; the first has terminated
C8_Witness == inst = 2 /\ did_revive /\ tpc[2] = "compute" /\ tpc[1] = "done"

\* C14: when the thread drains its notify channel after delivering a response,
\* it discards the notifications that came while it computed (and computes
\* nothing for them), and it keeps a notification that was sent after the
\* response was delivered, which triggers a computation.
C14_DrainKeepsLater ==
    [][\A i \in Insts :
          (tpc[i] = "drain" /\ tpc'[i] = "loop") =>
              IF late[i] THEN notify'[i] > 0 ELSE notify'[i] = 0]_vars

\* What the drain does: it empties the channel, whatever was sent and when,
\* so that the next wait starts with no request.
C14_DrainDiscardsAll ==
    [][\A i \in Insts :
          (tpc[i] = "drain" /\ tpc'[i] = "loop") => notify'[i] = 0]_vars

\* C15: a response that is buffered for a get on the same instance (the
\* computation of a get that timed out has completed, and the worker was not
\* replaced) is what that get returns: the get sends its notification, finds
\* the response at its first poll, returns the last one buffered and caches it.
C15_NextGetAdopts ==
    [][(/\ rpc \in {"send", "poll"}
        /\ ~did_revive
        /\ prompt[inst] # <<>>
        /\ rpc' # rpc)
          => \/ rpc = "send" /\ rpc' = "poll"
             \/ /\ rpc = "poll" /\ rpc' = "idle"
                /\ ret' = [kind |-> "Ok",
                           val |-> prompt[inst][Len(prompt[inst])],
                           via |-> "response"]
                /\ cached' = ret'.val]_vars

\* The same for the gets that get as far as polling.
C15_PolledGetAdopts ==
    [][(rpc = "poll" /\ prompt[inst] # <<>> /\ rpc' # rpc)
          => /\ rpc' = "idle"
             /\ ret' = [kind |-> "Ok",
                        val |-> prompt[inst][Len(prompt[inst])],
                        via |-> "response"]
             /\ cached' = ret'.val]_vars

\* C16: within one instance cached_output changes only when get receives a
\* response, to that response; the thread's steps, check_is_alive and a get
\* that runs out of time leave it as it is.
C16_CachedChangesOnReceipt ==
    [][/\ (cached' # cached /\ inst' = inst) =>
             /\ rpc = "poll" /\ rpc' = "idle"
             /\ prompt[inst] # <<>>
             /\ cached' = prompt[inst][Len(prompt[inst])]
             /\ ret' = [kind |-> "Ok", val |-> cached', via |-> "response"]
       /\ ((\E i \in Insts : ThreadStep(i)) \/ CheckIsAlive \/ PollTimerFired
             \/ BudgetFires \/ (\E i \in Insts : IdleTimerFires(i)))
             => cached' = cached]_vars

\* a get received a response that differs from what was cached
C16_Witness ==
    rpc = "idle" /\ ret.via = "response" /\ ~did_revive /\ cached # call_cached

\* every thread whose requester is gone has terminated (or was never spawned)
GoneThreadsDone ==
    \A i \in Insts : RequesterGone(i) => tpc[i] \in {"none", "done"}

\* C17 (under SpecLive, which has no fairness for the idle timer): a thread
\* whose requester is gone terminates; after the requester went, no death
\* signal and no response of it arrives anywhere, and the computation it ends
\* is its last: the delivery fails and the thread returns.
C17_GoneTerminates ==
    /\ []<>GoneThreadsDone
    /\ [][\A i \in Insts :
            RequesterGone(i) =>
                /\ deathq'[i] <= deathq[i]
                /\ prompt'[i] = prompt[i]
                /\ (tpc[i] = "compute" /\ tpc'[i] # "compute") => tpc'[i] = "done"]_vars

\* the PromptThread was dropped with no death signal received, and its
\* thread, which had served a request, has terminated
C17_Witness ==
    rpc = "dropped" /\ tpc[inst] = "done" /\ alive /\ last_sent[inst] # <<>>

\* the states of the specification's machine, by where the thread is
Phase(pc) ==
    CASE pc = "none" -> "Starting"
      [] pc \in {"loop", "select"} -> "Awaiting"
      [] pc \in {"compute", "drain"} -> "Computing"
      [] pc = "exiting" -> "IdleTimedOut"
      [] pc = "done" -> "Terminated"

\* the arrows of the machine (Ready is the first Awaiting)
MachineArrows ==
    { <<"Starting", "Awaiting">>, <<"Awaiting", "Computing">>,
      <<"Computing", "Awaiting">>, <<"Awaiting", "IdleTimedOut">>,
      <<"IdleTimedOut", "Terminated">> }

\* thread i changes phase along an arrow of the machine, or along one of more
OnArrow(i, more) ==
    Phase(tpc'[i]) # Phase(tpc[i]) =>
        <<Phase(tpc[i]), Phase(tpc'[i])>> \in MachineArrows \cup more

\* death is signalled only by the step from waiting to IdleTimedOut, once,
\* and a thread that timed out or terminated sends no response
TimeoutOnlyAwaiting(i) ==
    /\ deathq'[i] > deathq[i] =>
          /\ tpc[i] = "select" /\ tpc'[i] = "exiting"
          /\ deathq'[i] = deathq[i] + 1
    /\ tpc'[i] = "exiting" => tpc[i] \in {"select", "exiting"}
    /\ tpc[i] \in {"exiting", "done"} =>
          /\ Len(prompt'[i]) <= Len(prompt[i])
          /\ tpc'[i] \in {"exiting", "done"}

\* C18 as stated: a thread moves only along Starting -> Ready -> (Awaiting
\* <-> Computing) -> IdleTimedOut -> Terminated; it times out only while it
\* awaits a request; it signals death at most once, and after that it takes
\* no request and sends no response.
C18_AsStated ==
    [][\A i \in Insts : OnArrow(i, {}) /\ TimeoutOnlyAwaiting(i)]_vars

\* C18, amended: ... or along Computing -> Terminated, which a thread takes
\* when it cannot deliver its response because the requester is gone.
C18_Lifecycle ==
    [][\A i \in Insts :
          /\ OnArrow(i, { <<"Computing", "Terminated">> })
          /\ (tpc[i] = "compute" /\ tpc'[i] = "done") => RequesterGone(i)
          /\ TimeoutOnlyAwaiting(i)]_vars

\* a thread served a request, timed out, signalled death and terminated
C18_Witness ==
    \E i \in Insts : tpc[i] = "done" /\ last_sent[i] # <<>> /\ deathq[i] = 1

\* C19: no get returns a channel error, whatever the interleaving of the get
\* with the thread's idle-timeout termination: it is served by the old
\* thread, falls back to the cached string, or revives the worker.
C19_NoChannelError == ret.kind # "ChannelError"

\* C20: a thread leaves its loop by the timeout arm, and signals death, only
\* when the idle timer that was started at the top of its current wait has
\* fired; the tick in its timeout channel is that timer's; a timer of an
\* earlier wait causes neither.
C20_OnlyCurrentTimer ==
    [][\A i \in Insts :
          /\ (tpc[i] = "select" /\ tpc'[i] = "exiting") => idle[i] = "fired"
          /\ deathq'[i] > deathq[i] => idle[i] = "fired"
          /\ (timeout'[i] /\ ~timeout[i]) =>
                (idle[i] = "armed" /\ idle'[i] = "fired")
          /\ (idle'[i] = "armed" /\ idle[i] # "armed") =>
                (tpc[i] = "loop" /\ tpc'[i] = "select")]_vars

\* a thread that served a request and waited again timed out on the timer of
\* that wait, and signalled death
C20_Witness ==
    \E i \in Insts :
        /\ last_sent[i] # <<>> /\ tpc[i] = "exiting"
        /\ idle[i] = "fired" /\ deathq[i] = 1

\* C21: however many gets time out, at most one computation of the worker is
\* in progress at any time, and at most two responses are unread in the
\* response channel of any of its instances.
C21_BoundedWork ==
    /\ Cardinality({ i \in Insts : tpc[i] = "compute" }) <= 1
    /\ \A i \in Insts : Len(prompt[i]) <= 2

\* the response to a get that had timed out and the response to the get that
\* is under way are both unread, at that get's first poll
C21_Witness ==
    /\ rpc = "poll"
    /\ Len(prompt[inst]) = 2
    /\ tpc[inst] = "drain"

=============================================================================
